---- MODULE Spec2Model ----
(***************************************************************************)
(* A model of escvv, the chemistry equilibrium simulator:                  *)
(*   - the equation parser (escvv/equation/helper.py) and the renderer     *)
(*     ESCEquation.__str__ (escvv/equation/__init__.py), as operators on   *)
(*     sequences of one-character strings;                                 *)
(*   - the reaction systems ESCSystem, ESCSystemGPCV and ESCSystemGPCP     *)
(*     (escvv/system.py) as a state machine, with exact rational           *)
(*     arithmetic in place of floating point.                              *)
(***************************************************************************)
EXTENDS Integers, Sequences, FiniteSets, TLC

VARIABLES
    \* ---- parser side ----
    pstage,      \* "built" | "input" | "done": where the parse pipeline stands
    built,       \* the programmatically built Equation (or NoEquation)
    written,     \* the parts the input text was written from (or NoWritten)
    text,        \* the text handed to parse_equation: a sequence of characters
    presult,     \* what parse_equation did: an Equation or the exception raised
    \* ---- reaction system side ----
    kind,        \* "none" | "ESCSystem" | "GPCV" | "GPCP": the class of the object
    names,       \* _substances_name
    index,       \* _substances_index, a function from tracked names to 0-based ids
    amount,      \* _substances_amount
    phase,       \* _substances_state
    equations,   \* self.equations
    volume,      \* _volume (GPCP) / volume (GPCV)
    clapeyron,   \* _clapeyron_contant (GPCP)
    called,      \* the last finished call: [call, raised], raised the exception or "none"
    ops,         \* number of public calls made so far (bounded by MaxOps)
    run          \* the frame of the run() call in progress, or an idle frame

pvars == <<pstage, built, written, text, presult>>
svars == <<kind, names, index, amount, phase, equations, volume, clapeyron, called, ops, run>>
vars == <<pstage, built, written, text, presult,
          kind, names, index, amount, phase, equations, volume, clapeyron, called, ops, run>>

(***************************************************************************)
(* Numbers.  A Python/numpy float is modelled by an exact rational <<n, d>> *)
(* in lowest terms with d > 0, or by one of the IEEE special values:        *)
(* <<1, 0>> is inf, <<-1, 0>> is -inf and <<0, 0>> is nan.  Zero is         *)
(* unsigned.  Rounding of finite values is not modelled.                    *)
(***************************************************************************)
Abs(x) == IF x < 0 THEN -x ELSE x
Sgn(x) == IF x < 0 THEN -1 ELSE IF x > 0 THEN 1 ELSE 0

RECURSIVE GCD(_, _)
GCD(a, b) == IF b = 0 THEN a ELSE GCD(b, a % b)

Rat(n, d) ==
    LET g == GCD(Abs(n), Abs(d))
    IN  <<Sgn(d) * (n \div g), Abs(d) \div g>>

RInt(n) == <<n, 1>>
RZero == <<0, 1>>
ROne == <<1, 1>>
NaN == <<0, 0>>
IsNaN(a) == a[2] = 0 /\ a[1] = 0
IsInf(a) == a[2] = 0 /\ a[1] # 0
IsFinite(a) == a[2] > 0
RNeg(a) == <<-a[1], a[2]>>
RAbs(a) == <<Abs(a[1]), a[2]>>
RIsInt(a) == a[2] = 1

\* a + b
RAddFinite(a, b, g) ==
    Rat(a[1] * (b[2] \div g) + b[1] * (a[2] \div g), (a[2] \div g) * b[2])
RAdd(a, b) ==
    IF IsNaN(a) \/ IsNaN(b) THEN NaN
    ELSE IF IsInf(a) THEN (IF IsInf(b) /\ b[1] # a[1] THEN NaN ELSE a)
    ELSE IF IsInf(b) THEN b
    ELSE RAddFinite(a, b, GCD(a[2], b[2]))
RSub(a, b) == RAdd(a, RNeg(b))

\* a * b: inf * 0 is nan.
RMulFinite(x, y) == <<x[1] * y[1], x[2] * y[2]>>
RMul(a, b) ==
    IF IsNaN(a) \/ IsNaN(b) THEN NaN
    ELSE IF IsInf(a) \/ IsInf(b) THEN <<Sgn(a[1]) * Sgn(b[1]), 0>>
    ELSE RMulFinite(Rat(a[1], b[2]), Rat(b[1], a[2]))

\* numpy's a / b: x / 0 is inf (0 / 0 is nan) with a warning, no exception.
RDiv(a, b) ==
    IF IsNaN(a) \/ IsNaN(b) THEN NaN
    ELSE IF IsInf(b) THEN (IF IsInf(a) THEN NaN ELSE RZero)
    ELSE IF b[1] = 0 THEN <<Sgn(a[1]), 0>>
    ELSE RMul(a, Rat(b[2], b[1]))

\* a < b and a <= b: every comparison with nan is false.
RLt(a, b) ==
    /\ ~IsNaN(a) /\ ~IsNaN(b)
    /\ IF IsFinite(a) /\ IsFinite(b) THEN RSub(a, b)[1] < 0
       ELSE a # b /\ (a = <<-1, 0>> \/ b = <<1, 0>>)
RLe(a, b) == ~IsNaN(a) /\ ~IsNaN(b) /\ (a = b \/ RLt(a, b))

(***************************************************************************)
(* Characters and the lexer's tables.                                      *)
(***************************************************************************)
Letters == {"A", "B", "C", "K", "N", "a", "g", "l", "q", "s"}
Digits == <<"0", "1", "2", "3", "4", "5", "6", "7", "8", "9">>
DigitSet == {Digits[i] : i \in 1..10}
DigitValue(c) == (CHOOSE i \in 1..10 : Digits[i] = c) - 1
Spaces == {" ", "\n"}

\* _CharType._missing_: the class of a character.
CharType(c) ==
    IF c \in Letters \/ c \in {"-", "(", ")"} THEN "WORD"
    ELSE IF c \in DigitSet THEN "DECIMAL"
    ELSE IF c \in Spaces THEN "SPACE"
    ELSE IF c = "." THEN "DOT"
    ELSE IF c = "+" THEN "PLUS"
    ELSE IF c = "=" THEN "EQUAL"
    ELSE "OTHER"

\* _TOKENIZER_STATE_TABLE with _TokenizerState.next_state: a missing entry is NORMAL.
next_state(state, c) ==
    LET t == CharType(c)
    IN  CASE state = "NORMAL" ->
                IF t \in {"WORD", "DECIMAL", "DOT", "PLUS", "EQUAL"} THEN t ELSE "NORMAL"
          [] state = "WORD" ->
                IF t \in {"WORD", "DECIMAL", "DOT"} THEN "WORD" ELSE "NORMAL"
          [] state = "DECIMAL" ->
                IF t = "DECIMAL" THEN "DECIMAL"
                ELSE IF t = "DOT" THEN "DECIMAL_" ELSE "NORMAL"
          [] state = "DECIMAL_" ->
                IF t = "DECIMAL" THEN "DECIMAL_" ELSE "NORMAL"
          [] state = "EQUAL" ->
                IF t = "EQUAL" THEN "EQUAL" ELSE "NORMAL"
          [] OTHER -> "NORMAL"

\* _TokenizerState.get
get(state) == IF state = "DECIMAL_" THEN "DECIMAL" ELSE state

\* str.strip(): leading and trailing whitespace removed.
RECURSIVE lstrip(_)
lstrip(t) == IF t # <<>> /\ Head(t) \in Spaces THEN lstrip(Tail(t)) ELSE t
RECURSIVE rstrip(_)
rstrip(t) ==
    IF t # <<>> /\ t[Len(t)] \in Spaces THEN rstrip(SubSeq(t, 1, Len(t) - 1)) ELSE t
strip(t) == rstrip(lstrip(t))

Token(t, s) == [tok |-> t, st |-> s]
EndToken == Token(<<>>, "NORMAL")

\* The loop of _tokenize_origin over s + '\n'.
RECURSIVE tokenize_origin_loop(_, _, _, _, _)
tokenize_origin_loop(s, i, state, token, out) ==
    IF i > Len(s) THEN out
    ELSE LET c == s[i]
             ns == next_state(state, c)
         IN  IF ns # "NORMAL"
             THEN tokenize_origin_loop(s, i + 1, ns, Append(token, c), out)
             ELSE IF state # "NORMAL"
             THEN tokenize_origin_loop(s, i + 1, next_state("NORMAL", c), <<c>>,
                                       Append(out, Token(strip(token), get(state))))
             ELSE tokenize_origin_loop(s, i + 1, ns, token, out)

\* _tokenize_origin: the tokens, then three terminating NORMAL tokens.
tokenize_origin(s) ==
    tokenize_origin_loop(s \o <<"\n">>, 1, "NORMAL", <<>>, <<>>)
        \o <<EndToken, EndToken, EndToken>>

\* The fold test of _tokenize: a PLUS after a WORD that is not followed by a WORD
\* or a DECIMAL belongs to the WORD.
fold_plus(t0, t1, t2) ==
    t0.st = "WORD" /\ t1.st = "PLUS" /\ t2.st \notin {"WORD", "DECIMAL"}

\* The while loop of _tokenize; nxt is the position of the next unread origin token.
RECURSIVE tokenize_loop(_, _, _, _, _, _)
tokenize_loop(o, t0, t1, t2, nxt, out) ==
    IF t0.st = "NORMAL" THEN out
    ELSE IF fold_plus(t0, t1, t2)
    THEN tokenize_loop(o, Token(t0.tok \o <<"+">>, "WORD"), t2, o[nxt], nxt + 1, out)
    ELSE tokenize_loop(o, t1, t2, o[nxt], nxt + 1, Append(out, t0))

\* _tokenize: the finite part of the token stream.
tokenize(s) ==
    LET o == tokenize_origin(s)
    IN  tokenize_loop(o, o[1], o[2], o[3], 4, <<>>)

\* utils.endless: after the generator's tokens, the default token for ever.
StreamAt(stream, k) == IF k <= Len(stream) THEN stream[k] ELSE EndToken

\* _Tokenizer: n tokens are in _tokens, off is _offset.
Tokenizer_init == [n |-> 0, off |-> 0]
Tokenizer_next(stream, tz) ==
    IF tz.off = 0
    THEN [tok |-> StreamAt(stream, tz.n + 1), tz |-> [n |-> tz.n + 1, off |-> 0]]
    ELSE [tok |-> StreamAt(stream, tz.n + 1 + tz.off), tz |-> [n |-> tz.n, off |-> tz.off + 1]]
Tokenizer_previous(tz) == [n |-> tz.n, off |-> tz.off - 1]

(***************************************************************************)
(* The recursive-descent parser _parse.                                    *)
(***************************************************************************)
\* ESCState(value): the phase of a tag.
ESCState(tag) ==
    CASE tag = <<"s">> -> "SOLID"
      [] tag = <<"l">> -> "LIQUID"
      [] tag = <<"g">> -> "GAS"
      [] tag = <<"a", "q">> -> "AQUEOUS"

\* ESCState.value: the tag of a phase.
ESCState_value(state) ==
    CASE state = "SOLID" -> <<"s">>
      [] state = "LIQUID" -> <<"l">>
      [] state = "GAS" -> <<"g">>
      [] state = "AQUEOUS" -> <<"a", "q">>

PhaseTags == {<<"s">>, <<"l">>, <<"g">>, <<"a", "q">>}

\* re.match(r'^(.*)\((s|l|g|aq)\)$', w): the tag w ends with, or <<>> when no match.
state_match(w) ==
    LET n == Len(w)
        fits(tag) == /\ n >= Len(tag) + 2
                     /\ w[n] = ")"
                     /\ SubSeq(w, n - Len(tag), n - 1) = tag
                     /\ w[n - Len(tag) - 1] = "("
    IN  IF \E tag \in PhaseTags : fits(tag)
        THEN CHOOSE tag \in PhaseTags : fits(tag)
        ELSE <<>>

\* '_'.join(slice)
RECURSIVE join(_)
join(slice) ==
    IF Len(slice) = 1 THEN slice[1]
    ELSE slice[1] \o <<"_">> \o join(Tail(slice))

\* float(token) of a DECIMAL token: digits with at most one dot; any other
\* character makes float() raise ValueError.
RECURSIVE digits_value(_, _)
digits_value(t, acc) ==
    IF t = <<>> THEN acc ELSE digits_value(Tail(t), 10 * acc + DigitValue(Head(t)))
RECURSIVE pow10(_)
pow10(k) == IF k = 0 THEN 1 ELSE 10 * pow10(k - 1)
float_ok(t) ==
    /\ \A i \in 1..Len(t) : t[i] \in DigitSet \/ t[i] = "."
    /\ \E i \in 1..Len(t) : t[i] \in DigitSet
    /\ Cardinality({i \in 1..Len(t) : t[i] = "."}) <= 1
float(t) ==
    LET ds == SelectSeq(t, LAMBDA c : c \in DigitSet)
        dots == {i \in 1..Len(t) : t[i] = "."}
        frac == IF dots = {} THEN 0 ELSE Len(t) - (CHOOSE i \in dots : TRUE)
    IN  Rat(digits_value(ds, 0), pow10(frac))

\* The while loop of name(): WORD tokens are collected, the first other token is
\* pushed back.
RECURSIVE name_loop(_, _, _)
name_loop(stream, tz, slice) ==
    LET r == Tokenizer_next(stream, tz)
    IN  IF r.tok.st = "WORD"
        THEN name_loop(stream, r.tz, Append(slice, r.tok.tok))
        ELSE [tz |-> Tokenizer_previous(r.tz), slice |-> slice]

\* The end of name(): the phase tag is taken off the last WORD, and the WORDs
\* are joined.
name_tagged(tz, front, stem, tag) ==
    IF stem = <<>> /\ front = <<>>
    THEN [ok |-> FALSE, err |-> "SyntaxError", tz |-> tz, name |-> <<>>, state |-> "none"]
    ELSE [ok |-> TRUE, err |-> "none", tz |-> tz,
          name |-> join(IF stem = <<>> THEN front ELSE Append(front, stem)),
          state |-> ESCState(tag)]
name_state(tz, slice, last, tag, default_state) ==
    IF tag # <<>>
    THEN name_tagged(tz, SubSeq(slice, 1, Len(slice) - 1),
                     SubSeq(last, 1, Len(last) - Len(tag) - 2), tag)
    ELSE [ok |-> TRUE, err |-> "none", tz |-> tz, name |-> join(slice),
          state |-> default_state]
name_slice(l, default_state) ==
    IF l.slice = <<>>
    THEN [ok |-> FALSE, err |-> "SyntaxError", tz |-> l.tz, name |-> <<>>, state |-> "none"]
    ELSE name_state(l.tz, l.slice, l.slice[Len(l.slice)],
                    state_match(l.slice[Len(l.slice)]), default_state)

\* _parse.name
name(stream, tz, default_state) == name_slice(name_loop(stream, tz, <<>>), default_state)

\* _parse.material, after its first token r.
material_coefficient(n, sufficient) ==
    [ok |-> n.ok, err |-> n.err, tz |-> n.tz,
     mat |-> [name |-> n.name, coef |-> sufficient, state |-> n.state]]
material_token(stream, r, default_sufficient, default_state) ==
    IF r.tok.st = "DECIMAL"
    THEN IF ~float_ok(r.tok.tok)
         THEN [ok |-> FALSE, err |-> "ValueError", tz |-> r.tz,
               mat |-> [name |-> <<>>, coef |-> RZero, state |-> "none"]]
         ELSE material_coefficient(name(stream, r.tz, default_state), float(r.tok.tok))
    ELSE material_coefficient(name(stream, Tokenizer_previous(r.tz), default_state),
                              default_sufficient)

\* _parse.material
material(stream, tz, default_sufficient, default_state) ==
    material_token(stream, Tokenizer_next(stream, tz), default_sufficient, default_state)

\* _parse.substances: one turn of its loop, m the material read and r the token
\* after it.
RECURSIVE substances(_, _, _, _, _)
substances_plus(stream, r, default_sufficient, default_state, materials) ==
    IF r.tok.st = "PLUS"
    THEN substances(stream, r.tz, default_sufficient, default_state, materials)
    ELSE [ok |-> TRUE, err |-> "none", tz |-> Tokenizer_previous(r.tz),
          materials |-> materials]
substances_material(stream, m, default_sufficient, default_state, materials) ==
    IF ~m.ok
    THEN [ok |-> FALSE, err |-> m.err, tz |-> m.tz, materials |-> materials]
    ELSE substances_plus(stream, Tokenizer_next(stream, m.tz), default_sufficient,
                         default_state, Append(materials, m.mat))

\* _parse.substances
substances(stream, tz, default_sufficient, default_state, materials) ==
    substances_material(stream, material(stream, tz, default_sufficient, default_state),
                        default_sufficient, default_state, materials)

\* A dict as the sequence of its items in insertion order: d[key] = value keeps
\* the position of a key already present.
DictKeys(d) == {d[i].name : i \in 1..Len(d)}
\* A dict that keeps the first value stored under a key.
DictSet_keep_first(d, item) ==
    IF item.name \in DictKeys(d) THEN d ELSE Append(d, item)
DictSet(d, item) ==
    IF item.name \in DictKeys(d)
    THEN [i \in 1..Len(d) |-> IF d[i].name = item.name THEN item ELSE d[i]]
    ELSE Append(d, item)
DictGet(d, key) == d[CHOOSE i \in 1..Len(d) : d[i].name = key]
RECURSIVE DictUpdate(_, _)
DictUpdate(d, items) ==
    IF items = <<>> THEN d ELSE DictUpdate(DictSet(d, Head(items)), Tail(items))

ESCEquation(substs, K) ==
    [kind |-> "Equation", substances |-> substs, equilibrium_K |-> K]
Raised(exc) == [kind |-> exc, substances |-> <<>>, equilibrium_K |-> RZero]

\* The sign each side is stored with: the dict built at the end of equation().
left_sign == 1
right_sign == -1
\* The dict with the signs the other way round: the left side negated.
equation_dict_negated_left(sub1, sub2) ==
    LET signed(sub, sign) ==
            [i \in 1..Len(sub) |->
                [name |-> sub[i].name, coef |-> RMul(RInt(sign), sub[i].coef),
                 state |-> sub[i].state]]
    IN  DictUpdate(DictUpdate(<<>>, signed(sub1, right_sign)), signed(sub2, left_sign))
equation_dict(sub1, sub2) ==
    LET signed(sub, sign) ==
            [i \in 1..Len(sub) |->
                [name |-> sub[i].name, coef |-> RMul(RInt(sign), sub[i].coef),
                 state |-> sub[i].state]]
    IN  DictUpdate(DictUpdate(<<>>, signed(sub1, left_sign)), signed(sub2, right_sign))

\* _parse.equation, stage by stage: each operator takes what the stage before it
\* read.
equation_K_value(dict, v) ==
    IF v.tok.st # "DECIMAL" THEN Raised("SyntaxError")
    ELSE IF ~float_ok(v.tok.tok) THEN Raised("ValueError")
    ELSE ESCEquation(dict, float(v.tok.tok))
equation_K_equal(stream, dict, q) ==
    IF ~(q.tok.st = "EQUAL" /\ q.tok.tok = <<"=">>) THEN Raised("SyntaxError")
    ELSE equation_K_value(dict, Tokenizer_next(stream, q.tz))
equation_K(stream, dict, k) ==
    IF k.tok.st = "NORMAL" THEN ESCEquation(dict, RZero)
    ELSE IF ~(k.tok.st = "WORD" /\ k.tok.tok = <<"K">>) THEN Raised("SyntaxError")
    ELSE equation_K_equal(stream, dict, Tokenizer_next(stream, k.tz))
equation_right(stream, sub1, s2) ==
    IF ~s2.ok THEN Raised(s2.err)
    ELSE equation_K(stream, equation_dict(sub1, s2.materials), Tokenizer_next(stream, s2.tz))
equation_equal(stream, sub1, e, default_sufficient, default_state) ==
    IF e.tok.st # "EQUAL" THEN Raised("SyntaxError")
    ELSE equation_right(stream, sub1,
                        substances(stream, e.tz, default_sufficient, default_state, <<>>))
equation_left(stream, s1, default_sufficient, default_state) ==
    IF ~s1.ok THEN Raised(s1.err)
    ELSE equation_equal(stream, s1.materials, Tokenizer_next(stream, s1.tz),
                        default_sufficient, default_state)

\* _parse.equation
equation(stream, default_sufficient, default_state) ==
    equation_left(stream,
                  substances(stream, Tokenizer_init, default_sufficient, default_state, <<>>),
                  default_sufficient, default_state)

\* _parse and parse_equation
parse(s, default_sufficient, default_state) ==
    equation(tokenize(s), default_sufficient, default_state)
parse_equation(s) == parse(s, ROne, "GAS")

(***************************************************************************)
(* ESCEquation.__str__                                                     *)
(***************************************************************************)
\* str(int) of a natural number.
RECURSIVE str_int(_)
str_int(n) ==
    IF n < 10 THEN <<Digits[n + 1]>> ELSE str_int(n \div 10) \o <<Digits[(n % 10) + 1]>>

\* str(float) of a non-negative float with at most one fractional digit: 2.0 is
\* '2.0', 0.5 is '0.5'.
str_float(r) ==
    str_int(r[1] \div r[2]) \o <<".">> \o str_int((10 * (r[1] % r[2])) \div r[2])

\* f'{coefficient}' after `if coefficient == int(coefficient): coefficient = int(...)`.
str_coefficient(r) == IF RIsInt(r) THEN str_int(r[1]) ELSE str_float(r)

RECURSIVE join_plus(_)
join_plus(parts) ==
    IF parts = <<>> THEN <<>>
    ELSE IF Len(parts) = 1 THEN parts[1]
    ELSE parts[1] \o <<" ", "+", " ">> \o join_plus(Tail(parts))

\* One item of the forward or backward list.
str_item(item) ==
    LET c == RAbs(item.coef)
        tagged == item.name \o <<"(">> \o ESCState_value(item.state) \o <<")">>
    IN  IF c = ROne THEN tagged ELSE str_coefficient(c) \o tagged

ESCEquation_str(eq) ==
    LET forward == SelectSeq(eq.substances, LAMBDA it : it.coef[1] > 0)
        backward == SelectSeq(eq.substances, LAMBDA it : it.coef[1] < 0)
        strs(items) == [i \in 1..Len(items) |-> str_item(items[i])]
    IN  join_plus(strs(forward)) \o <<" ", "=", "=", "=", " ">> \o join_plus(strs(backward))
            \o <<" ", " ", "K", "=">> \o str_float(eq.equilibrium_K)

(***************************************************************************)
(* The inputs of the parser: texts written from parts, and Equations built *)
(* programmatically.                                                       *)
(***************************************************************************)
MaxMaterials == 3

Mat(c, n, t) == [coef |-> c, name |-> n, tag |-> t]
WrittenMaterials ==
    { Mat(<<>>, <<"A">>, <<>>),
      Mat(<<"2">>, <<"B">>, <<"s">>),
      Mat(<<"0", ".", "5">>, <<"A">>, <<"l">>),
      Mat(<<>>, <<"N", "a", "+">>, <<"a", "q">>),
      Mat(<<>>, <<"N", "a", "+">>, <<>>),
      Mat(<<>>, <<>>, <<"s">>) }
Separators == { <<" ", "=", " ">>, <<" ", "=", "=", "=", " ">>, <<" ">> }
Tails ==
    { <<>>,
      <<" ", " ", "K", "=", "0", ".", "5">>,
      <<" ", "K", "=", "2">>,
      <<" ", "K">>,
      <<" ", "#">>,
      <<"#", "2">>,
      <<" ", "+">> }

material_text(m) ==
    m.coef \o m.name \o (IF m.tag = <<>> THEN <<>> ELSE <<"(">> \o m.tag \o <<")">>)
written_text(w) ==
    join_plus([i \in 1..Len(w.left) |-> material_text(w.left[i])]) \o w.sep
        \o join_plus([i \in 1..Len(w.right) |-> material_text(w.right[i])]) \o w.tail

SeqsUpTo(S, n) == UNION { [1..k -> S] : k \in 0..n }
\* At most MaxMaterials materials are written in a text, over both sides.
WrittenInput(l, s, r, t) ==
    [given |-> TRUE, left |-> l, sep |-> s, right |-> r, tail |-> t]
NoWritten == [given |-> FALSE, left |-> <<>>, sep |-> <<>>, right |-> <<>>, tail |-> <<>>]

BuiltNames == { <<"A">>, <<"B", "2">> }
BuiltCoefs == { <<1, 1>>, <<-1, 1>>, <<2, 1>>, <<-2, 1>>, <<1, 2>>, <<-1, 2>>, <<-3, 2>> }
BuiltStates == { "SOLID", "GAS", "AQUEOUS" }
BuiltKs == { <<0, 1>>, <<9, 10>>, <<2, 1>> }
BuiltItems == { [name |-> n, coef |-> c, state |-> st] :
                    n \in BuiltNames, c \in BuiltCoefs, st \in BuiltStates }
BuiltDicts ==
    { d \in SeqsUpTo(BuiltItems, Cardinality(BuiltNames)) :
        d # <<>> /\ \A i, j \in 1..Len(d) : i # j => d[i].name # d[j].name }
BuiltEquations == { ESCEquation(d, k) : d \in BuiltDicts, k \in BuiltKs }
NoEquation == [kind |-> "none", substances |-> <<>>, equilibrium_K |-> RZero]

(***************************************************************************)
(* The parse pipeline: an Equation is rendered to text, a text is parsed.  *)
(***************************************************************************)
NoResult == [kind |-> "none", substances |-> <<>>, equilibrium_K |-> RZero]

SystemAbsent ==
    /\ kind = "none"
    /\ names = <<>>
    /\ index = <<>>
    /\ amount = <<>>
    /\ phase = <<>>
    /\ equations = <<>>
    /\ volume = RZero
    /\ clapeyron = RZero
    /\ called = [call |-> "none", raised |-> "none", at |-> "none"]
    /\ ops = 0
    /\ run = [pc |-> "idle", delta |-> RZero, espilon |-> RZero, annealing |-> RZero,
              coefficients |-> <<>>, substances |-> <<>>, equilibrium |-> FALSE,
              i |-> 0, passes |-> 0, concentration |-> <<>>, rate |-> RZero,
              step |-> <<>>, ratio |-> RZero, bound |-> RZero, stepped |-> FALSE,
              applied |-> <<>>]

InitParser ==
    /\ \/ /\ pstage = "input"
          /\ \E k \in 0..MaxMaterials :
                \E l \in [1..k -> WrittenMaterials],
                   r \in SeqsUpTo(WrittenMaterials, MaxMaterials - k),
                   s \in Separators, t \in Tails :
                    written = WrittenInput(l, s, r, t)
          /\ text = written_text(written)
          /\ built = NoEquation
       \/ /\ pstage = "built"
          /\ built \in BuiltEquations
          /\ written = NoWritten
          /\ text = <<>>
    /\ presult = NoResult
    /\ SystemAbsent

\* text = str(equation)
Render ==
    /\ pstage = "built"
    /\ text' = ESCEquation_str(built)
    /\ pstage' = "input"
    /\ UNCHANGED <<built, written, presult>>
    /\ UNCHANGED svars

\* result = parse_equation(text)
Parse ==
    /\ pstage = "input"
    /\ presult' = parse_equation(text)
    /\ pstage' = "done"
    /\ UNCHANGED <<built, written, text>>
    /\ UNCHANGED svars

NextParser == Render \/ Parse
SpecParser == InitParser /\ [][NextParser]_vars

(***************************************************************************)
(* What a written text says, read off the parts it was written from.       *)
(***************************************************************************)
WrittenCoefficient(m) ==
    CASE m.coef = <<>> -> <<1, 1>>
      [] m.coef = <<"2">> -> <<2, 1>>
      [] m.coef = <<"0", ".", "5">> -> <<1, 2>>
WrittenPhase(m) ==
    CASE m.tag = <<>> -> "GAS"
      [] m.tag = <<"s">> -> "SOLID"
      [] m.tag = <<"l">> -> "LIQUID"
      [] m.tag = <<"g">> -> "GAS"
      [] m.tag = <<"a", "q">> -> "AQUEOUS"
EqualSeparators == { <<" ", "=", " ">>, <<" ", "=", "=", "=", " ">> }
KClauses == { <<" ", " ", "K", "=", "0", ".", "5">>, <<" ", "K", "=", "2">> }
WrittenK(t) ==
    CASE t = <<" ", " ", "K", "=", "0", ".", "5">> -> <<1, 2>>
      [] t = <<" ", "K", "=", "2">> -> <<2, 1>>
      [] OTHER -> <<0, 1>>
\* Tails that add a token to the name of the last material (`B K`, `B +`).
NameTails == { <<" ", "K">>, <<" ", "+">> }
\* Tails that are stray characters.
StrayTails == { <<" ", "#">>, <<"#", "2">> }
PlainName(m) == m.name # <<>> /\ \A i \in 1..Len(m.name) : m.name[i] # "+"
SidesWritten(w) ==
    /\ w.given
    /\ w.left # <<>> /\ w.right # <<>>
    /\ w.sep \in EqualSeparators
AllMaterials(w) == w.left \o w.right
WrittenNames(w) == { AllMaterials(w)[i].name : i \in 1..Len(AllMaterials(w)) }
LastOccurrence(w, n) ==
    CHOOSE i \in 1..Len(AllMaterials(w)) :
        /\ AllMaterials(w)[i].name = n
        /\ \A j \in (i + 1)..Len(AllMaterials(w)) : AllMaterials(w)[j].name # n
Parsed == pstage = "done" /\ presult.kind = "Equation"
Stored(n) == DictGet(presult.substances, n)

(***************************************************************************)
(* Claims about the parser.                                                *)
(***************************************************************************)
\* C1: for every text `Substances EQUAL Substances K=NUMBER` parse_equation returns
\* an Equation whose equilibrium_K is NUMBER and whose right-hand substances are
\* exactly the materials written before `K`; without a K clause equilibrium_K is 0.
C1_KClauseParsed ==
    ( /\ pstage = "done"
      /\ SidesWritten(written)
      /\ \A i \in 1..Len(AllMaterials(written)) : PlainName(AllMaterials(written)[i])
      /\ written.tail \in KClauses \cup {<<>>} )
    => /\ presult.kind = "Equation"
       /\ presult.equilibrium_K = WrittenK(written.tail)
       /\ { it.name : it \in { presult.substances[i] : i \in 1..Len(presult.substances) } }
            = WrittenNames(written)

\* C2 as stated: every substance written on the left is stored with the negation of
\* its written coefficient, every substance written on the right with its written
\* coefficient (read for the substances whose name is written once in the text).
WrittenOnce(w, n) ==
    Cardinality({ i \in 1..Len(AllMaterials(w)) : AllMaterials(w)[i].name = n }) = 1
C2_LeftNegatedRightPositive ==
    ( /\ Parsed
      /\ SidesWritten(written)
      /\ written.tail \notin NameTails )
    => \A i \in 1..Len(AllMaterials(written)) :
        LET m == AllMaterials(written)[i]
        IN  (WrittenOnce(written, m.name) /\ m.name \in DictKeys(presult.substances))
            => Stored(m.name).coef =
                 IF i <= Len(written.left) THEN RNeg(WrittenCoefficient(m))
                 ELSE WrittenCoefficient(m)

\* C2 as amended: in every successfully parsed text, each written substance name has
\* exactly one entry; it carries the coefficient and phase of the last occurrence of
\* the name, the coefficient as written when that occurrence is on the left and
\* negated when it is on the right.
C2_LeftPositiveRightNegated ==
    ( /\ Parsed
      /\ written.given
      /\ written.tail \notin NameTails )
    => /\ SidesWritten(written)
       /\ DictKeys(presult.substances) = WrittenNames(written)
       /\ Len(presult.substances) = Cardinality(WrittenNames(written))
       /\ \A i \in 1..Len(AllMaterials(written)) :
            LET m == AllMaterials(written)[i]
            IN  i = LastOccurrence(written, m.name)
                => Stored(m.name) =
                     [name |-> m.name,
                      coef |-> IF i <= Len(written.left) THEN WrittenCoefficient(m)
                               ELSE RNeg(WrittenCoefficient(m)),
                      state |-> WrittenPhase(m)]

\* C2 witness: a text with an explicit coefficient on each side has been parsed.
C2_Witness ==
    /\ Parsed
    /\ SidesWritten(written)
    /\ written.tail = <<>>
    /\ written.left[1].coef = <<"2">>
    /\ Len(written.right) = 2
    /\ written.right[2].coef = <<"0", ".", "5">>
    /\ written.right[1].name # written.right[2].name

\* C3: round trip: parsing str(equation) returns an Equation with the same substance
\* mapping and the same equilibrium_K (or 0); read for the equations that have a
\* substance on each side.
TwoSided(eq) ==
    /\ \E i \in 1..Len(eq.substances) : eq.substances[i].coef[1] > 0
    /\ \E i \in 1..Len(eq.substances) : eq.substances[i].coef[1] < 0
C3_RoundTrip ==
    (pstage = "done" /\ built.kind = "Equation" /\ TwoSided(built))
    => /\ presult.kind = "Equation"
       /\ { presult.substances[i] : i \in 1..Len(presult.substances) }
            = { built.substances[i] : i \in 1..Len(built.substances) }
       /\ presult.equilibrium_K \in { built.equilibrium_K, RZero }

\* C4: a name ending in `+` with a phase tag (`Na+(aq)`), joined by `+` to another
\* material, parses to the substance `Na+` with the tagged phase, followed by the
\* next material, without a syntax error.
IonTagged(m) == m.name = <<"N", "a", "+">> /\ m.tag = <<"a", "q">>
IonThenMaterial(side) ==
    \E i \in 1..(Len(side) - 1) : IonTagged(side[i]) /\ PlainName(side[i + 1])
C4_IonWithPhaseParsed ==
    ( /\ pstage = "done"
      /\ SidesWritten(written)
      /\ written.tail = <<>>
      /\ \A i \in 1..Len(AllMaterials(written)) :
            PlainName(AllMaterials(written)[i]) \/ IonTagged(AllMaterials(written)[i])
      /\ IonThenMaterial(written.left) \/ IonThenMaterial(written.right) )
    => /\ presult.kind = "Equation"
       /\ <<"N", "a", "+">> \in DictKeys(presult.substances)
       /\ Stored(<<"N", "a", "+">>).state = "AQUEOUS"
       /\ DictKeys(presult.substances) = WrittenNames(written)

\* C5: parsing is all-or-nothing: an Equation is returned only for a text that
\* matches the grammar; a missing separator, an empty or phase-only name and stray
\* or trailing characters raise SyntaxError.
Grammatical(w) ==
    /\ SidesWritten(w)
    /\ \A i \in 1..Len(AllMaterials(w)) : AllMaterials(w)[i].name # <<>>
    /\ w.tail \notin StrayTails
C5_AllOrNothing ==
    (pstage = "done" /\ written.given /\ ~Grammatical(written))
    => presult.kind = "SyntaxError"

(***************************************************************************)
(* Reaction systems: ESCSystem, ESCSystemGPCV and ESCSystemGPCP.           *)
(* A numpy float array is a sequence of numbers.  A numpy boolean array is *)
(* a record that keeps its number of dimensions: the 4 x n matrix of       *)
(* _states(), one of its rows, or a single element of a row.               *)
(***************************************************************************)
ESCState_index(state) ==
    CASE state = "SOLID" -> 0
      [] state = "LIQUID" -> 1
      [] state = "GAS" -> 2
      [] state = "AQUEOUS" -> 3
\* len(ESCState)
StateCount == 4

Mask2(rows) == [ndim |-> 2, rows |-> rows, items |-> <<>>, item |-> FALSE]
Mask1(items) == [ndim |-> 1, rows |-> <<>>, items |-> items, item |-> FALSE]
Mask0(b) == [ndim |-> 0, rows |-> <<>>, items |-> <<>>, item |-> b]

RECURSIVE Flatten(_)
Flatten(rows) == IF rows = <<>> THEN <<>> ELSE Head(rows) \o Flatten(Tail(rows))
\* mask.ravel(): the elements of a boolean array in row-major order.
mask_flat(mask) ==
    CASE mask.ndim = 2 -> Flatten(mask.rows)
      [] mask.ndim = 1 -> mask.items
      [] mask.ndim = 0 -> <<mask.item>>

\* mask[k] for an integer k counted from 0: a row of a matrix, an element of a
\* row; IndexError past the end.
mask_index(mask, k) ==
    IF mask.ndim = 2
    THEN [raised |-> "none", mask |-> Mask1(mask.rows[k + 1])]
    ELSE IF k < Len(mask.items)
    THEN [raised |-> "none", mask |-> Mask0(mask.items[k + 1])]
    ELSE [raised |-> "IndexError", mask |-> Mask0(FALSE)]

RECURSIVE VSum(_)
VSum(v) == IF v = <<>> THEN RZero ELSE RAdd(Head(v), VSum(Tail(v)))
RECURSIVE VProd(_)
VProd(v) == IF v = <<>> THEN ROne ELSE RMul(Head(v), VProd(Tail(v)))

\* amount[sel].sum(): a row selects the elements it marks; a single boolean
\* selects the whole array (True) or nothing (False).
select_sum(amounts, sel) ==
    IF sel.ndim = 1
    THEN VSum([i \in 1..Len(amounts) |-> IF sel.items[i] THEN amounts[i] ELSE RZero])
    ELSE IF sel.item THEN VSum(amounts) ELSE RZero

\* np.place(arr, mask, val): ValueError unless mask has as many elements as arr.
np_place(arr, flat, val) ==
    IF Len(flat) # Len(arr)
    THEN [raised |-> "ValueError", value |-> arr]
    ELSE [raised |-> "none",
          value |-> [i \in 1..Len(arr) |-> IF flat[i] THEN val ELSE arr[i]]]

\* ESCSystem._states
states_of(ph) ==
    Mask2([r \in 1..StateCount |->
             [i \in 1..Len(ph) |-> ESCState_index(ph[i]) = r - 1]])

\* states[ESCState.SOLID.index] | states[ESCState.AQUEOUS.index]
not_have_volume(states) ==
    [i \in 1..Len(states.rows[1]) |->
        \/ states.rows[ESCState_index("SOLID") + 1][i]
        \/ states.rows[ESCState_index("AQUEOUS") + 1][i]]

\* ESCSystemGPCP._gas_amount
gas_amount_sum(amounts, r) ==
    [raised |-> r.raised,
     value |-> IF r.raised = "none" THEN select_sum(amounts, r.mask) ELSE RZero]
gas_amount(amounts, states) ==
    gas_amount_sum(amounts, mask_index(states, ESCState_index("GAS")))

\* The result of a _concentration call: the exception raised, the
\* concentrations and the volume the call leaves in the object.
Concentration(raised, value, vol) == [raised |-> raised, value |-> value, volume |-> vol]
VDiv(v, d) == [i \in 1..Len(v) |-> RDiv(v[i], d)]

\* ESCSystem._concentration
ESCSystem_concentration_placed(p, vol) == Concentration(p.raised, p.value, vol)
ESCSystem_concentration(amounts, states, vol) ==
    ESCSystem_concentration_placed(np_place(amounts, not_have_volume(states), ROne), vol)

\* ESCSystemGPCV._concentration: its second parameter receives the whole
\* states matrix of run().
ESCSystemGPCV_concentration_placed(p, vol) ==
    IF p.raised # "none" THEN Concentration(p.raised, <<>>, vol)
    ELSE Concentration("none", VDiv(p.value, vol), vol)
ESCSystemGPCV_concentration(amounts, states, vol) ==
    ESCSystemGPCV_concentration_placed(np_place(amounts, mask_flat(states), vol), vol)

\* ESCSystemGPCP._concentration
ESCSystemGPCP_concentration_placed(p, vol) ==
    IF p.raised # "none" THEN Concentration(p.raised, <<>>, vol)
    ELSE Concentration("none", VDiv(p.value, vol), vol)
ESCSystemGPCP_concentration_volume(amounts, states, vol) ==
    ESCSystemGPCP_concentration_placed(np_place(amounts, not_have_volume(states), vol), vol)
ESCSystemGPCP_concentration(amounts, states, constant) ==
    ESCSystemGPCP_concentration_volume(amounts, states,
                                       RMul(gas_amount(amounts, states).value, constant))

\* self._concentration(substances, states), dispatched on the class.
concentration(cls, amounts, states, vol, constant) ==
    CASE cls = "ESCSystem" -> ESCSystem_concentration(amounts, states, vol)
      [] cls = "GPCV" -> ESCSystemGPCV_concentration(amounts, states, vol)
      [] cls = "GPCP" -> ESCSystemGPCP_concentration(amounts, states, constant)

\* np.float_power(x, c) for a whole c >= 0: x ** 0 is 1 for every x, nan too.
RECURSIVE float_power(_, _)
float_power(x, c) == IF c = 0 THEN ROne ELSE RMul(x, float_power(x, c - 1))

\* _rate
rate_of(concentrations, coefficient, rate_k) ==
    RMul(VProd([i \in 1..Len(concentrations) |->
                   float_power(concentrations[i], coefficient[i][1])]), rate_k)

\* ESCEquation.forward and ESCEquation.backward: KeyError when a name with a
\* coefficient of that sign is not in indexes.
IndexOf(indexes, n) == DictGet(indexes, n).idx
coefficient_vector(items, indexes, count) ==
    IF \E i \in 1..Len(items) : items[i].name \notin DictKeys(indexes)
    THEN [raised |-> "KeyError", value |-> <<>>]
    ELSE [raised |-> "none",
          value |-> [j \in 1..count |->
                       IF \E i \in 1..Len(items) : IndexOf(indexes, items[i].name) = j - 1
                       THEN RAbs(items[CHOOSE i \in 1..Len(items) :
                                         IndexOf(indexes, items[i].name) = j - 1].coef)
                       ELSE RZero]]
ESCEquation_forward(eq, indexes, count) ==
    coefficient_vector(SelectSeq(eq.substances, LAMBDA it : it.coef[1] > 0), indexes, count)
ESCEquation_backward(eq, indexes, count) ==
    coefficient_vector(SelectSeq(eq.substances, LAMBDA it : it.coef[1] < 0), indexes, count)

(***************************************************************************)
(* The tracked substances of a system, as one record, and the calls that   *)
(* change them.  raised is the exception that stopped the call.            *)
(***************************************************************************)
Tracked(n, ix, am, ph, eqs, raised) ==
    [names |-> n, index |-> ix, amount |-> am, phase |-> ph, equations |-> eqs,
     raised |-> raised]
NoneTracked == Tracked(<<>>, <<>>, <<>>, <<>>, <<>>, "none")
Range(s) == {s[i] : i \in 1..Len(s)}

\* __setitem__ with the index of a new name counted from 1: len(names) in place
\* of len(names) - 1.
setitem_index_from_one(sys, n, c) ==
    IF n \in Range(sys.names)
    THEN [sys EXCEPT !.amount[IndexOf(sys.index, n) + 1] = c]
    ELSE [sys EXCEPT !.names = Append(@, n),
                     !.amount = Append(@, c),
                     !.phase = Append(@, "GAS"),
                     !.index = Append(@, [name |-> n, idx |-> Len(sys.names) + 1])]

\* ESCSystem.__setitem__
setitem(sys, n, c) ==
    IF n \in Range(sys.names)
    THEN [sys EXCEPT !.amount[IndexOf(sys.index, n) + 1] = c]
    ELSE [sys EXCEPT !.names = Append(@, n),
                     !.amount = Append(@, c),
                     !.phase = Append(@, "GAS"),
                     !.index = Append(@, [name |-> n, idx |-> Len(sys.names)])]

\* _set_state of the three classes.
set_state(cls, sys, n, state) ==
    IF cls # "ESCSystem" /\ state = "AQUEOUS"
    THEN [sys EXCEPT !.raised = "ValueError"]
    ELSE [sys EXCEPT !.phase[IndexOf(sys.index, n) + 1] = state]

\* ESCSystem.add_equation: the equation is appended first, then each of its
\* names is tracked and given its phase, until _set_state raises.
RECURSIVE add_equation_loop(_, _, _)
add_equation_state(cls, sys, items) ==
    IF sys.raised # "none" THEN sys ELSE add_equation_loop(cls, sys, Tail(items))
add_equation_name(cls, sys, items) ==
    add_equation_state(cls, set_state(cls, sys, Head(items).name, Head(items).state), items)
add_equation_loop(cls, sys, items) ==
    IF items = <<>> THEN sys
    ELSE IF Head(items).name \in Range(sys.names)
    THEN add_equation_name(cls, sys, items)
    ELSE add_equation_name(cls, setitem(sys, Head(items).name, RZero), items)
add_equation(cls, sys, eq) ==
    add_equation_loop(cls, [sys EXCEPT !.equations = Append(@, eq)], eq.substances)

\* ESCSystem.__init__
RECURSIVE init_substances(_, _)
init_substances(sys, given) ==
    IF given = <<>> THEN sys
    ELSE init_substances(setitem(sys, Head(given).name, Head(given).concentration),
                         Tail(given))
RECURSIVE init_equations(_, _, _)
init_equations(cls, sys, eqs) ==
    IF eqs = <<>> \/ sys.raised # "none" THEN sys
    ELSE init_equations(cls, add_equation(cls, sys, Head(eqs)), Tail(eqs))
ESCSystem_init(cls, given, eqs) ==
    init_equations(cls, init_substances(NoneTracked, given), eqs)

\* The volume setter of ESCSystemGPCP: it hands one row of the states matrix
\* to _gas_amount, which indexes it again.
volume_setter_constant(v, g, constant) ==
    [raised |-> g.raised, volume |-> v,
     constant |-> IF g.raised = "none" THEN RDiv(v, g.value) ELSE constant]
volume_setter_gas(v, amounts, r, constant) ==
    volume_setter_constant(v, gas_amount(amounts, r.mask), constant)
volume_setter(v, amounts, ph, constant) ==
    volume_setter_gas(v, amounts, mask_index(states_of(ph), ESCState_index("GAS")), constant)

(***************************************************************************)
(* run(): one equation of one pass.  A frame holds run()'s local variables. *)
(***************************************************************************)
\* PRECISION
PRECISION == 14

RECURSIVE StripFactor(_, _, _)
StripFactor(d, p, k) == IF k = 0 \/ d % p # 0 THEN d ELSE StripFactor(d \div p, p, k - 1)
\* x has at most `decimals` decimal places.
HasDecimals(x, decimals) == StripFactor(StripFactor(x[2], 2, decimals), 5, decimals) = 1
\* rint: round half to even.
rint(n, d) ==
    LET q == n \div d
        r == 2 * (n % d)
    IN  IF r > d \/ (r = d /\ q % 2 = 1) THEN q + 1 ELSE q
\* np.around(x, decimals)
np_around(x, decimals) ==
    IF ~IsFinite(x) \/ HasDecimals(x, decimals) THEN x
    ELSE Rat(rint(x[1] * pow10(decimals), x[2]), pow10(decimals))
\* substances[substances <= 0] = 0
clamp(x) == IF RLe(x, RZero) THEN RZero ELSE x

\* min() of an array: nan if any element is nan.
RMin(S) ==
    IF \E x \in S : IsNaN(x) THEN NaN
    ELSE CHOOSE x \in S : \A y \in S : RLe(x, y)

Coefficients(f, b, K) == [forward |-> f, backward |-> b, equilibrium_K |-> K]
\* The locals of run(): i is the position in the for loop, passes counts the
\* passes of the while loop, bound is the ratio before damping, and stepped
\* tells whether the body of line 125 ran for the equation just handled;
\* applied lists the steps of the current pass: the equation, the amounts
\* line 131 left and the step.
NoRun ==
    [pc |-> "idle", delta |-> RZero, espilon |-> RZero, annealing |-> RZero,
     coefficients |-> <<>>, substances |-> <<>>, equilibrium |-> FALSE,
     i |-> 0, passes |-> 0, concentration |-> <<>>, rate |-> RZero,
     step |-> <<>>, ratio |-> RZero, bound |-> RZero, stepped |-> FALSE,
     applied |-> <<>>]

\* (substances - step * scale) < 0).any()
any_negative(substs, step, scale) ==
    \E i \in 1..Len(substs) : RLt(RSub(substs[i], RMul(step[i], scale)), RZero)
\* not_have_volume[side > 0].all()
all_without_volume(nhv, side) ==
    \A i \in 1..Len(side) : RLt(RZero, side[i]) => nhv[i]

\* Lines 133-136 without the test of the two sides: the equation leaves
\* equilibrium unless an amount is about to run out.
run_equilibrium_any_side(f, c, nhv) ==
    IF any_negative(f.substances, f.step, RDiv(f.espilon, RInt(10)))
    THEN f
    ELSE [f EXCEPT !.equilibrium = FALSE]
\* Lines 133-136: the equation leaves equilibrium unless one side has no
\* species with a volume and an amount is about to run out.
run_equilibrium(f, c, nhv) ==
    IF /\ \/ all_without_volume(nhv, c.forward)
          \/ all_without_volume(nhv, c.backward)
       /\ any_negative(f.substances, f.step, RDiv(f.espilon, RInt(10)))
    THEN f
    ELSE [f EXCEPT !.equilibrium = FALSE]
\* Line 131: substances -= step * ratio
Applied(k, substs, step) == [equation |-> k, substances |-> substs, step |-> step]
subtracted(f) == [i \in 1..Len(f.substances) |->
                     RSub(f.substances[i], RMul(f.step[i], f.ratio))]
run_subtract(f, c, nhv) ==
    run_equilibrium(
        [f EXCEPT !.substances = subtracted(f),
                  !.stepped = TRUE,
                  !.applied = Append(@, Applied(f.i, subtracted(f), f.step))], c, nhv)
\* Lines 129-130 with the two branches exchanged: the ratio is multiplied by
\* delta when the epsilon-scaled step leaves some amount negative.
run_damp_exchanged(f, c, nhv) ==
    IF any_negative(f.substances, f.step, f.espilon)
    THEN run_subtract([f EXCEPT !.ratio = RMul(f.bound, f.delta)], c, nhv)
    ELSE run_subtract([f EXCEPT !.ratio = f.bound], c, nhv)
\* Lines 129-130: the ratio is multiplied by delta when the epsilon-scaled
\* step leaves no amount negative.
run_damp(f, c, nhv) ==
    IF ~any_negative(f.substances, f.step, f.espilon)
    THEN run_subtract([f EXCEPT !.ratio = RMul(f.bound, f.delta)], c, nhv)
    ELSE run_subtract([f EXCEPT !.ratio = f.bound], c, nhv)
\* Lines 127-128: min() of an empty array raises ValueError.
run_ratio(f, c, nhv, consume) ==
    IF consume = {}
    THEN [f EXCEPT !.pc = "ValueError"]
    ELSE run_damp([f EXCEPT !.bound =
                      RMin({RDiv(f.substances[i], f.step[i]) : i \in consume})], c, nhv)
\* Lines 125-126
run_step(f, c, nhv) ==
    IF RLt(f.espilon, RAbs(f.rate))
    THEN run_ratio([f EXCEPT !.step = [i \in 1..Len(c.forward) |->
                                          RMul(RSub(c.forward[i], c.backward[i]), f.rate)]],
                   c, nhv,
                   {i \in 1..Len(c.forward) :
                       RLt(RZero, RMul(RSub(c.forward[i], c.backward[i]), f.rate))})
    ELSE f
\* Lines 121-124
run_rate(f, c, nhv) ==
    run_step([f EXCEPT !.rate = RSub(rate_of(f.concentration, c.forward, c.equilibrium_K),
                                     rate_of(f.concentration, c.backward, ROne))],
             c, nhv)
\* Line 120 onwards, for the equation whose coefficients are c.
run_equation(f, c, conc, nhv) ==
    IF conc.raised # "none"
    THEN [f EXCEPT !.pc = conc.raised]
    ELSE run_rate([f EXCEPT !.concentration = conc.value, !.stepped = FALSE], c, nhv)

(***************************************************************************)
(* The calls made on a system.  Amounts, equations, volumes and run()      *)
(* arguments are drawn from the sets below; coefficients are whole.        *)
(***************************************************************************)
MaxOps == 2
MaxPasses == 3
\* run() is followed while the amounts are fractions with denominators up to this.
MaxDenominator == 16

SystemClasses == {"ESCSystem", "GPCV", "GPCP"}
SystemNames == { <<"A">>, <<"B">>, <<"C">> }
AmountInputs == { RZero, ROne, RInt(2) }
VolumeInputs == { ROne, RInt(2) }
Given(n, c) == [name |-> n, concentration |-> c]
SubstanceInputs ==
    { <<>>,
      <<Given(<<"A">>, ROne)>>,
      <<Given(<<"A">>, RInt(2)), Given(<<"B">>, ROne)>>,
      <<Given(<<"A">>, ROne), Given(<<"B">>, RZero), Given(<<"C">>, RZero)>>,
      <<Given(<<"A">>, RInt(2)), Given(<<"B">>, ROne), Given(<<"C">>, ROne)>> }
Item(n, c, st) == [name |-> n, coef |-> RInt(c), state |-> st]
EquationInputs ==
    { ESCEquation(<<Item(<<"A">>, 1, "GAS"), Item(<<"B">>, -1, "GAS")>>, RInt(2)),
      ESCEquation(<<Item(<<"A">>, 2, "GAS"), Item(<<"B">>, -1, "SOLID")>>, ROne),
      ESCEquation(<<Item(<<"A">>, 1, "AQUEOUS"), Item(<<"B">>, -1, "GAS")>>, ROne),
      ESCEquation(<<Item(<<"A">>, 1, "LIQUID")>>, RInt(2)),
      ESCEquation(<<Item(<<"B">>, 1, "GAS"), Item(<<"C">>, -2, "LIQUID")>>, Rat(1, 2)) }
EquationListInputs == { <<>> } \cup { <<eq>> : eq \in EquationInputs }
RunArguments(d, e, a) == [delta |-> d, espilon |-> e, annealing |-> a]
RunInputs ==
    { RunArguments(Rat(1, 2), Rat(1, 10), Rat(1, 2)),
      RunArguments(Rat(1, 2), RInt(3), Rat(1, 2)),
      RunArguments(ROne, Rat(1, 10), Rat(9, 10)) }

Call(c, raised, at) == [call |-> c, raised |-> raised, at |-> at]
ParserAbsent ==
    /\ pstage = "off"
    /\ built = NoEquation
    /\ written = NoWritten
    /\ text = <<>>
    /\ presult = NoResult

InitSystem ==
    /\ ParserAbsent
    /\ SystemAbsent

\* The object exists: its constructor returned.
Alive == called.call # "none" /\ ~(called.call = "construct" /\ called.raised # "none")
Callable == Alive /\ run.pc = "idle" /\ ops < MaxOps
TrackedNow == Tracked(names, index, amount, phase, equations, "none")

\* The tracked fields become those of sys.
Store(sys) ==
    /\ names' = sys.names
    /\ index' = sys.index
    /\ amount' = sys.amount
    /\ phase' = sys.phase
    /\ equations' = sys.equations

\* The constructors.  An exception leaves no object behind.
ConstructFailed(cls, raised, at) ==
    /\ kind' = cls
    /\ called' = Call("construct", raised, at)
    /\ UNCHANGED <<names, index, amount, phase, equations, volume, clapeyron, ops, run>>
ConstructVolume(cls, sys, v, set) ==
    IF cls = "GPCP" /\ set.raised # "none"
    THEN ConstructFailed(cls, set.raised, "_gas_amount")
    ELSE /\ kind' = cls
         /\ Store(sys)
         /\ volume' = IF cls = "ESCSystem" THEN RZero ELSE v
         /\ clapeyron' = IF cls = "GPCP" THEN set.constant ELSE RZero
         /\ called' = Call("construct", "none", "none")
         /\ UNCHANGED <<ops, run>>
ConstructSystem(cls, sys, v) ==
    IF sys.raised # "none"
    THEN ConstructFailed(cls, sys.raised, "_set_state")
    ELSE ConstructVolume(cls, sys, v, volume_setter(v, sys.amount, sys.phase, RZero))
Construct ==
    /\ called.call = "none"
    /\ \E cls \in SystemClasses, given \in SubstanceInputs,
          eqs \in EquationListInputs, v \in VolumeInputs :
          /\ cls = "ESCSystem" => v = ROne
          /\ ConstructSystem(cls, ESCSystem_init(cls, given, eqs), v)
    /\ UNCHANGED pvars

\* system[name] = concentration
SetItem ==
    /\ Callable
    /\ \E n \in SystemNames, c \in AmountInputs : Store(setitem(TrackedNow, n, c))
    /\ called' = Call("__setitem__", "none", "none")
    /\ ops' = ops + 1
    /\ UNCHANGED <<kind, volume, clapeyron, run>>
    /\ UNCHANGED pvars

\* system.add_equation(equation)
AddEquationResult(sys) ==
    /\ Store(sys)
    /\ called' = Call("add_equation", sys.raised,
                      IF sys.raised = "none" THEN "none" ELSE "_set_state")
AddEquation ==
    /\ Callable
    /\ \E eq \in EquationInputs : AddEquationResult(add_equation(kind, TrackedNow, eq))
    /\ ops' = ops + 1
    /\ UNCHANGED <<kind, volume, clapeyron, run>>
    /\ UNCHANGED pvars

\* system.volume = v: the property setter of ESCSystemGPCP, a plain attribute of
\* ESCSystemGPCV.
SetVolumeResult(set) ==
    /\ volume' = set.volume
    /\ clapeyron' = set.constant
    /\ called' = Call("volume", set.raised,
                      IF set.raised = "none" THEN "none" ELSE "_gas_amount")
SetVolume ==
    /\ Callable
    /\ kind \in {"GPCV", "GPCP"}
    /\ \E v \in VolumeInputs :
          IF kind = "GPCP"
          THEN SetVolumeResult(volume_setter(v, amount, phase, clapeyron))
          ELSE /\ volume' = v
               /\ clapeyron' = clapeyron
               /\ called' = Call("volume", "none", "none")
    /\ ops' = ops + 1
    /\ UNCHANGED <<kind, names, index, amount, phase, equations, run>>
    /\ UNCHANGED pvars

\* run(delta, espilon, annealing), lines 108-118: the coefficients are looked
\* up, the locals are set and the first pass begins.
run_coefficients(eqs, indexes, count) ==
    [k \in 1..Len(eqs) |->
        [forward |-> ESCEquation_forward(eqs[k], indexes, count),
         backward |-> ESCEquation_backward(eqs[k], indexes, count),
         equilibrium_K |-> eqs[k].equilibrium_K]]
RunEnter(args, cs) ==
    IF \E k \in 1..Len(cs) : cs[k].forward.raised # "none" \/ cs[k].backward.raised # "none"
    THEN /\ run' = NoRun
         /\ called' = Call("run", "KeyError", "forward")
    ELSE /\ run' = [NoRun EXCEPT !.pc = "loop",
                                 !.delta = args.delta,
                                 !.espilon = args.espilon,
                                 !.annealing = args.annealing,
                                 !.coefficients =
                                     [k \in 1..Len(cs) |->
                                         Coefficients(cs[k].forward.value,
                                                      cs[k].backward.value,
                                                      cs[k].equilibrium_K)],
                                 !.substances = amount,
                                 !.equilibrium = TRUE,
                                 !.i = 1,
                                 !.passes = 1]
         /\ called' = called
RunStart ==
    /\ Callable
    /\ \E args \in RunInputs :
          RunEnter(args, run_coefficients(equations, index, Len(names)))
    /\ ops' = ops + 1
    /\ UNCHANGED <<kind, names, index, amount, phase, equations, volume, clapeyron>>
    /\ UNCHANGED pvars

\* Lines 119-136 for one equation of the pass.  An exception ends run() before
\* the amounts are stored.
RunEquationResult(f, conc) ==
    /\ volume' = conc.volume
    /\ IF f.pc = "loop"
       THEN /\ run' = [f EXCEPT !.i = @ + 1]
            /\ called' = called
       ELSE /\ run' = NoRun
            /\ called' = Call("run", f.pc,
                              IF conc.raised # "none" THEN "_concentration" ELSE "min")
RunEquationConcentration(conc) ==
    RunEquationResult(run_equation(run, run.coefficients[run.i], conc,
                                   not_have_volume(states_of(phase))), conc)
Followed(substs) == \A i \in 1..Len(substs) : substs[i][2] <= MaxDenominator
RunEquation ==
    /\ run.pc = "loop"
    /\ run.i <= Len(run.coefficients)
    /\ Followed(run.substances)
    /\ RunEquationConcentration(
           concentration(kind, run.substances, states_of(phase), volume, clapeyron))
    /\ UNCHANGED <<kind, names, index, amount, phase, equations, clapeyron, ops>>
    /\ UNCHANGED pvars

\* Lines 137-138 and the loop test of line 117.
anneal(f) ==
    IF RLt(RDiv(f.espilon, RInt(10)), f.delta)
    THEN [f EXCEPT !.delta = RMul(f.delta, f.annealing)]
    ELSE f
RunEndPass ==
    /\ run.pc = "loop"
    /\ run.i > Len(run.coefficients)
    /\ run.equilibrium \/ run.passes < MaxPasses
    /\ run' = IF run.equilibrium
              THEN [anneal(run) EXCEPT !.pc = "finish"]
              ELSE [anneal(run) EXCEPT !.equilibrium = TRUE, !.i = 1,
                                       !.passes = @ + 1, !.stepped = FALSE,
                                       !.applied = <<>>]
    /\ UNCHANGED <<kind, names, index, amount, phase, equations, volume, clapeyron,
                   called, ops>>
    /\ UNCHANGED pvars

\* Lines 139-141
RunFinish ==
    /\ run.pc = "finish"
    /\ amount' = [i \in 1..Len(run.substances) |->
                     clamp(np_around(run.substances[i], PRECISION))]
    /\ run' = NoRun
    /\ called' = Call("run", "none", "none")
    /\ UNCHANGED <<kind, names, index, phase, equations, volume, clapeyron, ops>>
    /\ UNCHANGED pvars

NextSystem ==
    \/ Construct
    \/ SetItem
    \/ AddEquation
    \/ SetVolume
    \/ RunStart
    \/ RunEquation
    \/ RunEndPass
    \/ RunFinish

SpecSystem == InitSystem /\ [][NextSystem]_vars

(***************************************************************************)
(* Claims about the reaction systems.                                      *)
(***************************************************************************)
HasAqueous(eq) == \E i \in 1..Len(eq.substances) : eq.substances[i].state = "AQUEOUS"
\* The sum of the amounts of the substances whose phase is GAS.
GasMoles ==
    VSum([i \in 1..Len(amount) |-> IF phase[i] = "GAS" THEN amount[i] ELSE RZero])

\* C6: in every state of a constructed system, whatever calls were made and
\* whether or not they raised, every substance name of every equation in the
\* equation list is a key of the name -> index map.
C6_EquationNamesTracked ==
    Alive =>
        \A k \in 1..Len(equations) :
            \A i \in 1..Len(equations[k].substances) :
                equations[k].substances[i].name \in DictKeys(index)

\* C7: on the constant-volume and constant-pressure systems an add_equation
\* call that gives a substance the AQUEOUS phase raises ValueError in that
\* call, no tracked substance has phase AQUEOUS, and run() applies no step
\* for an equation that contains an AQUEOUS substance.
C7_AqueousRejected ==
    (Alive /\ kind \in {"GPCV", "GPCP"}) =>
        /\ \A i \in 1..Len(phase) : phase[i] # "AQUEOUS"
        /\ (called.call = "add_equation" /\ HasAqueous(equations[Len(equations)]))
              => called.raised = "ValueError"
        /\ (run.pc = "loop" /\ run.stepped) => ~HasAqueous(equations[run.i - 1])

\* C8: on the constant-pressure system, when the volume has just been set to
\* v (by the constructor or by assignment), the call has not failed inside
\* _gas_amount and the stored constant is v divided by the sum of the amounts
\* of the GAS-phase substances.
C8_ConstantFromGasMoles ==
    (kind = "GPCP" /\ called.call \in {"construct", "volume"}) =>
        /\ called.at # "_gas_amount"
        /\ called.raised = "none" => clapeyron = RDiv(volume, GasMoles)

\* C9: on the constant-volume system run() never fails while computing the
\* concentrations, and the concentrations it has computed for an equation in
\* tolerance are 1 for a SOLID substance and amount / volume for the others.
C9_ConcentrationComputed ==
    kind = "GPCV" =>
        /\ ~(called.call = "run" /\ called.at = "_concentration")
        /\ (run.pc = "loop" /\ run.i > 1 /\ ~run.stepped) =>
              run.concentration =
                  [i \in 1..Len(phase) |->
                      IF phase[i] = "SOLID" THEN ROne
                      ELSE RDiv(run.substances[i], volume)]

\* C10: the amounts given to a system are never negative; then every tracked
\* amount is >= 0 in every state, and so is every amount run() is working on,
\* after each step it applies.
C10_AmountsNonNegative ==
    /\ \A i \in 1..Len(amount) : RLe(RZero, amount[i])
    /\ run.pc # "idle" => \A i \in 1..Len(run.substances) : RLe(RZero, run.substances[i])
\* The same amounts on the base ESCSystem alone, where no volume divides them.
NonNegativeOnESCSystem == kind = "ESCSystem" => C10_AmountsNonNegative

(***************************************************************************)
(* Claims about the structure of a system and about run().                 *)
(***************************************************************************)
\* The k-th name tracked has index k - 1, no name is tracked twice, and the
\* name, amount and phase lists have one entry per name.
IndexInInsertionOrder ==
    /\ Len(index) = Len(names)
    /\ Len(amount) = Len(names)
    /\ Len(phase) = Len(names)
    /\ \A k \in 1..Len(names) : index[k] = [name |-> names[k], idx |-> k - 1]
    /\ \A j, k \in 1..Len(names) : names[j] = names[k] => j = k
\* A call keeps every tracked name and its index.
NamesKept ==
    /\ Len(names') >= Len(names)
    /\ \A k \in 1..Len(names) : names'[k] = names[k] /\ index'[k] = index[k]

\* C11: after any sequence of __setitem__, add_equation and run() calls the
\* name -> index map sends the tracked names one-to-one onto 0..n-1 in the
\* order they were first set, the name, amount and phase lists have length n,
\* and no step of any call removes a name or changes an index already given.
C11_IndexBijection == []IndexInInsertionOrder /\ [][NamesKept]_vars
\* A run() that applied steps has returned on a system of three substances
\* with an equation, after another call.
C11_Witness ==
    /\ called = Call("run", "none", "none")
    /\ ops = MaxOps
    /\ Len(names) = 3
    /\ equations # <<>>
    /\ amount[1] # ROne /\ amount[1] # RInt(2) /\ amount[1] # RZero

\* RunEquation has applied a step for the equation at run.i.
StepApplied == run.pc = "loop" /\ run'.pc = "loop" /\ run'.i = run.i + 1 /\ run'.stepped
\* The bounding ratio r of that step: the least amount / step over the species
\* the step consumes.
BoundingRatio ==
    RMin({RDiv(run.substances[i], run'.step[i]) :
             i \in {j \in 1..Len(run'.step) : RLt(RZero, run'.step[j])}})
\* Subtracting the epsilon-scaled step would leave no amount negative.
NoneNegative == ~any_negative(run.substances, run'.step, run.espilon)

\* C12 as stated: when the epsilon-scaled step would leave no amount negative
\* the applied ratio is r itself, otherwise it is r * delta.
C12_UndampedWhenNoneNegative ==
    [][StepApplied =>
          run'.ratio = IF NoneNegative THEN BoundingRatio
                       ELSE RMul(BoundingRatio, run.delta)]_vars

\* C12: for an out-of-tolerance equation with bounding ratio r, when the
\* epsilon-scaled step would leave no amount negative the applied ratio is
\* r * delta (a damped step); when it would leave some amount negative the
\* applied ratio is r itself, and the limiting species is used up.
C12_DampedWhenNoneNegative ==
    [][StepApplied =>
          /\ run'.ratio = IF NoneNegative THEN RMul(BoundingRatio, run.delta)
                          ELSE BoundingRatio
          /\ run'.substances = [i \in 1..Len(run.substances) |->
                                   RSub(run.substances[i],
                                        RMul(run'.step[i], run'.ratio))]]_vars
\* A damped step has been applied: the ratio is half the bounding ratio.
C12_Witness ==
    /\ run.pc = "loop" /\ run.stepped
    /\ run.delta = Rat(1, 2)
    /\ IsFinite(run.bound) /\ run.bound # RZero
    /\ run.ratio = RMul(run.bound, run.delta)
\* An undamped step has been applied with delta below 1: it used up a species.
C12_UndampedReached ==
    /\ run.pc = "loop" /\ run.stepped
    /\ run.delta = Rat(1, 2)
    /\ IsFinite(run.bound) /\ run.bound # RZero
    /\ run.ratio = run.bound

\* Every run() of the model starts with delta >= epsilon / 10 and 0 < annealing < 1.
RunInputsAnneal ==
    \A args \in RunInputs :
        /\ RLe(RDiv(args.espilon, RInt(10)), args.delta)
        /\ RLt(RZero, args.annealing) /\ RLt(args.annealing, ROne)

\* C13: in a run() started with delta >= epsilon / 10 and 0 < annealing < 1,
\* delta is at least epsilon / 10 at the start of every pass of the while loop.
C13_DeltaFloor ==
    (RunInputsAnneal /\ run.pc = "loop" /\ run.i = 1) =>
        RLe(RDiv(run.espilon, RInt(10)), run.delta)

\* The special case of lines 133-135 for an applied step h: one side of its
\* equation has no species with a volume, and after the step a tenth of the
\* epsilon-scaled step would take some amount below zero.
SpecialCase(h) ==
    /\ \/ all_without_volume(not_have_volume(states_of(phase)),
                             run.coefficients[h.equation].forward)
       \/ all_without_volume(not_have_volume(states_of(phase)),
                             run.coefficients[h.equation].backward)
    /\ any_negative(h.substances, h.step, RDiv(run.espilon, RInt(10)))

\* C14 as stated: when run() leaves the while loop, no equation applied a step
\* in the pass just completed.
C14_NoStepInFinalPass == run.pc = "finish" => run.applied = <<>>

\* C14: run() leaves the while loop only after a complete pass in which every
\* equation either was within tolerance or applied a step that fell under the
\* special case of lines 133-135; a pass with any other step is followed by a
\* further pass.
C14_FinalPassSettled ==
    run.pc = "finish" => \A k \in 1..Len(run.applied) : SpecialCase(run.applied[k])
\* run() is about to return after a pass in which a step changed the amounts.
C14_Witness == run.pc = "finish" /\ run.applied # <<>> /\ run.substances # amount

\* C15: when an out-of-tolerance equation has no species with a positive
\* step entry, computing the limiting ratio raises no error: run() never ends
\* with the ValueError of min() over the empty selection of line 128.
C15_NoBoundNoError == ~(called.call = "run" /\ called.at = "min")

(***************************************************************************)
(* A claim about names written more than once in a parsed text.            *)
(***************************************************************************)
WrittenTwice(w) ==
    \E i, j \in 1..Len(AllMaterials(w)) :
        i # j /\ AllMaterials(w)[i].name = AllMaterials(w)[j].name
OnBothSides(w, n) ==
    /\ \E i \in 1..Len(w.left) : w.left[i].name = n
    /\ \E i \in 1..Len(w.right) : w.right[i].name = n

\* C16: a text of plain materials in which a name is written more than once
\* is parsed without error; the Equation has one entry per distinct name, and
\* the entry of a name has the coefficient (in size) and the phase of the last
\* occurrence of the name in reading order, so that a name written on both
\* sides is stored as a right-side substance only.
C16_LastOccurrenceKept ==
    ( /\ pstage = "done"
      /\ SidesWritten(written)
      /\ written.tail = <<>>
      /\ \A i \in 1..Len(AllMaterials(written)) : PlainName(AllMaterials(written)[i])
      /\ WrittenTwice(written) )
    => /\ presult.kind = "Equation"
       /\ Len(presult.substances) = Cardinality(WrittenNames(written))
       /\ \A n \in WrittenNames(written) :
            /\ n \in DictKeys(presult.substances)
            /\ RAbs(Stored(n).coef) =
                   WrittenCoefficient(AllMaterials(written)[LastOccurrence(written, n)])
            /\ Stored(n).state =
                   WrittenPhase(AllMaterials(written)[LastOccurrence(written, n)])
            /\ OnBothSides(written, n) =>
                   /\ Stored(n).coef[1] < 0
                   /\ LastOccurrence(written, n) > Len(written.left)
\* `A = 0.5A(l)` with nothing else on the right has been parsed: A is written
\* on both sides with different coefficients and phases.
C16_Witness ==
    /\ Parsed
    /\ SidesWritten(written)
    /\ written.tail = <<>>
    /\ written.left = <<Mat(<<>>, <<"A">>, <<>>)>>
    /\ written.right = <<Mat(<<"0", ".", "5">>, <<"A">>, <<"l">>)>>
    /\ presult.substances = <<[name |-> <<"A">>, coef |-> <<-1, 2>>, state |-> "LIQUID"]>>

=============================================================================
